---- MODULE Spec2Model ----
(***************************************************************************)
(* Sentinel control-plane decision loop: the obligation monitor            *)
(* (ltl/mod.rs), the circuit-breaker guard (sre.rs), the orchestrating     *)
(* cycle (manager.rs) with the knowledge graph (knowledge.rs) and the      *)
(* ledger (crypto/mod.rs), the producer, channel and consumer loop         *)
(* (main.rs), the price generator (feed/mod.rs) and the client of the      *)
(* execution backend (qpu/mod.rs).                                         *)
(*                                                                         *)
(* f64 prices are modelled by integers: the code only compares a price     *)
(* with 100.0 and stores it.  Instants are integer seconds.                *)
(***************************************************************************)
EXTENDS Integers, Sequences, FiniteSets, TLC

VARIABLES
    monitor,      \* SafetyMonitor.state
    tolerance,    \* SafetyMonitor.max_ticks_tolerance
    events,       \* history: the events passed to check, in order
    states,       \* history: monitor state after each check
    rets,         \* history: return value of each check
    sre,          \* the SentinelSRE of main: [state, error_count, last_failure]
    now,          \* the monotonic clock read by Instant::now / elapsed
    call,         \* history: the last completed guard call of a single caller
    ghost,        \* history: report_failure calls since the last reset, time of the last
    pc,           \* concurrent callers of the guard: where each one is
    locks,        \* the three mutexes of the guard: 0 when free, else the holder
    seen,         \* concurrent callers: the values check_health has read
    step,         \* main: the step counter of the consumer loop
    kg,           \* QuantumManager.kg: Option<QuantumKnowledge>
    mgr_sre,      \* QuantumManager.sre, the manager's own guard
    ledger,       \* Ledger: the records appended to the log file
    metrics,      \* number of record_metric emissions of the manager
    tick,         \* history: what the loop did with the last value consumed
    running,      \* the process has not panicked
    source,       \* the file QuantumKnowledge::new was given: what reading it yields
    fcall,        \* history: the last call of the cycle, of verify or of the inference
    feed,         \* SentinelFeed: [current_price, current_vol]
    draws,        \* history: the normal draws of each next_tick so far
    qpu,          \* QiskitRuntimeService.active_session: Option<String>
    qlog,         \* history: the calls made on the service and what they did
    queue,        \* the mpsc channel between producer and consumer
    produced,     \* number of values the producer has sent
    consumed,     \* history: the values the consumer has handled, in order
    dip,          \* the first value of the producer that is below the threshold, 0 if none
    prod          \* the producer task: where it is in its loop, the value in hand

vars == <<monitor, tolerance, events, states, rets, sre, now, call, ghost,
          pc, locks, seen, step, kg, mgr_sre, ledger, metrics, tick, running,
          source, fcall, feed, draws, qpu, qlog, queue, produced, consumed, dip, prod>>

monVars == <<monitor, tolerance, events, states, rets>>
guardVars == <<sre, now, call, ghost>>
concVars == <<pc, locks, seen>>
loopVars == <<step, kg, mgr_sre, ledger, metrics, tick, running>>
cycVars == <<source, fcall>>
feedVars == <<feed, draws>>
qpuVars == <<qpu, qlog>>
chanVars == <<queue, produced, consumed, dip, prod>>
extVars == <<cycVars, feedVars, qpuVars, chanVars>>

-----------------------------------------------------------------------------
(* Bounds of the model *)

MaxEvents == 5          \* length of an event sequence fed to the monitor
MaxTol == 2             \* small tolerances tried besides the one main uses
MaxTime == 65           \* last second of the clock
MaxErr == 7             \* cap on the error counter
NProcs == 2             \* concurrent callers of one guard
MaxStep == 51           \* the consumer loop is followed up to this step
MaxPending == 12        \* cap on the monitor's tick count in the consumer loop
MaxProduced == 52       \* values the producer task generates
MaxFeedTicks == 5       \* calls of next_tick followed on one generator
SqrtCap == 2048         \* largest root the square root is searched up to
MaxQpuCalls == 4         \* calls followed on one execution-backend client
MaxCycles == 2          \* cycles of the manager on its own that reach the ledger

(* Program constants *)

PriceThreshold == 100   \* ltl/mod.rs:40
MainTolerance == 10     \* main.rs:43
ErrThreshold == 5       \* sre.rs:81
Cooldown == 30          \* sre.rs:94
SleepSecs == 5          \* main.rs:62
TriggerInterval == 50   \* main.rs:73
LayersPerDepth == 10    \* manager.rs:47
DefaultT1 == 50         \* manager.rs:30
HeronT1 == 100          \* manager.rs:40
GateTimeCenti == 5      \* sre.rs:17, 0.05 us in hundredths
MarginCenti == 50       \* sre.rs:18, 0.5 in hundredths
DeepBelow == 10         \* knowledge.rs:101, 1e-3 in units of 1e-4
BalancedBelow == 50     \* knowledge.rs:104, 5e-3 in units of 1e-4
DefaultEplg == 100      \* knowledge.rs:94, 0.01 in units of 1e-4
ChannelCap == 32        \* main.rs:44
Kappa == 2              \* feed/mod.rs:31
ThetaE4 == 400          \* feed/mod.rs:32, 0.04 in units of 1e-4
XiInverse == 10         \* feed/mod.rs:33, 0.1 as its inverse
RhoPct == -70           \* feed/mod.rs:34, -0.7 in hundredths
StepsPerYear == 252     \* feed/mod.rs:35, dt = 1/252
VolFloorE4 == 10        \* feed/mod.rs:56, 0.001 in units of 1e-4
DriftPct == 5           \* feed/mod.rs:59, 0.05 in hundredths
InitialPrice == 10000   \* feed/mod.rs:36, 100.0 in hundredths
InitialVol == 400       \* feed/mod.rs:37, 0.04 in units of 1e-4

-----------------------------------------------------------------------------
(* ltl/mod.rs *)

Prices == {98, 99, 100, 101}

PriceUpdate(p) == [kind |-> "PriceUpdate", price |-> p]
HedgeExecuted == [kind |-> "HedgeExecuted"]
QuantumJobFinished == [kind |-> "QuantumJobFinished"]

SentinelEvent == {PriceUpdate(p) : p \in Prices} \cup {HedgeExecuted, QuantumJobFinished}

Safe == [tag |-> "Safe"]
PendingHedge(n) == [tag |-> "PendingHedge", ticks |-> n]

IsPending(m) == m.tag = "PendingHedge"

\* faulty variant: the threshold itself triggers
BelowThresholdLE(p) == p <= PriceThreshold

\* `*price < 100.0`
BelowThreshold(p) == p < PriceThreshold

\* faulty variant: off by one, the tick equal to the tolerance is already a violation
ExceedsToleranceGE(ticks, tol) == ticks >= tol

\* `*ticks > self.max_ticks_tolerance`
ExceedsTolerance(ticks, tol) == ticks > tol

\* faulty variant: a price back at or above the threshold does not count as a tick
PendingStepFrozen(m, tol, e) ==
    IF e.kind = "HedgeExecuted"
        THEN [state |-> Safe, ret |-> TRUE]
        ELSE IF e.kind = "PriceUpdate" /\ ~BelowThreshold(e.price)
            THEN [state |-> m, ret |-> ~ExceedsTolerance(m.ticks, tol)]
            ELSE [state |-> PendingHedge(m.ticks + 1),
                  ret |-> ~ExceedsTolerance(m.ticks + 1, tol)]

\* faulty variant: the hedge is honoured only within the tolerance
PendingStepHedgeInTime(m, tol, e) ==
    IF e.kind = "HedgeExecuted" /\ ~ExceedsTolerance(m.ticks, tol)
        THEN [state |-> Safe, ret |-> TRUE]
        ELSE [state |-> PendingHedge(m.ticks + 1),
              ret |-> ~ExceedsTolerance(m.ticks + 1, tol)]

\* faulty variant: a reported violation starts the count again
PendingStepRestartsOnViolation(m, tol, e) ==
    IF e.kind = "HedgeExecuted"
        THEN [state |-> Safe, ret |-> TRUE]
        ELSE IF ExceedsTolerance(m.ticks + 1, tol)
            THEN [state |-> PendingHedge(0), ret |-> FALSE]
            ELSE [state |-> PendingHedge(m.ticks + 1), ret |-> TRUE]

\* the PendingHedge(ticks) arm of check
PendingStep(m, tol, e) ==
    IF e.kind = "HedgeExecuted"
        THEN [state |-> Safe, ret |-> TRUE]
        ELSE [state |-> PendingHedge(m.ticks + 1),
              ret |-> ~ExceedsTolerance(m.ticks + 1, tol)]

\* faulty variant: every price update raises the obligation
SafeStepAnyPrice(m, e) ==
    IF e.kind = "PriceUpdate"
        THEN [state |-> PendingHedge(0), ret |-> TRUE]
        ELSE [state |-> m, ret |-> TRUE]

\* the Safe arm of check
SafeStep(m, e) ==
    IF e.kind = "PriceUpdate" /\ BelowThreshold(e.price)
        THEN [state |-> PendingHedge(0), ret |-> TRUE]
        ELSE [state |-> m, ret |-> TRUE]

\* SafetyMonitor::check: the state after the call and the value returned
Check(m, tol, e) ==
    IF IsPending(m) THEN PendingStep(m, tol, e) ELSE SafeStep(m, e)

\* SafetyMonitor::new
NewMonitor == Safe

Tolerances == (0..MaxTol) \cup {MainTolerance}


\* one call of check on a free-standing monitor, with any event
MonCheck ==
    /\ Len(events) < MaxEvents
    /\ \E e \in SentinelEvent :
        LET r == Check(monitor, tolerance, e) IN
        /\ monitor' = r.state
        /\ events' = Append(events, e)
        /\ states' = Append(states, r.state)
        /\ rets' = Append(rets, r.ret)
    /\ UNCHANGED <<tolerance, guardVars, concVars, loopVars>>
    /\ UNCHANGED extVars

-----------------------------------------------------------------------------
(* sre.rs: SentinelSRE *)

None == [some |-> FALSE]
Some(t) == [some |-> TRUE, at |-> t]

\* SentinelSRE::new
NewSRE == [state |-> "Healthy", error_count |-> 0, last_failure |-> None]

\* faulty variant: the breaker already trips when the counter reaches the threshold
ExceedsErrThresholdGE(c) == c >= ErrThreshold

\* `*err_count > 5`
ExceedsErrThreshold(c) == c > ErrThreshold

\* faulty variant: a cooldown of exactly 30 seconds already re-admits work
CooldownElapsedGE(last, t) == last.some /\ t - last.at >= Cooldown

\* `if let Some(t) = last { if t.elapsed() > Duration::from_secs(30)`
CooldownElapsed(last, t) == last.some /\ t - last.at > Cooldown

\* faulty variant: a failure reported while Open leaves the timestamp alone
RfRecordKeepsCooldown(s, t) ==
    IF s.state = "Open"
        THEN [s EXCEPT !.error_count = @ + 1]
        ELSE [s EXCEPT !.error_count = @ + 1, !.last_failure = Some(t)]

\* `*err_count += 1; *last_fail = Some(Instant::now());`
RfRecord(s, t) == [s EXCEPT !.error_count = @ + 1, !.last_failure = Some(t)]

\* `if *err_count > 5 { *state = HealthState::Open; }`
RfTrip(s) == IF ExceedsErrThreshold(s.error_count) THEN [s EXCEPT !.state = "Open"] ELSE s

\* the body of report_failure, executed with the three locks held, at instant t
ReportFailureBody(s, t) == RfTrip(RfRecord(s, t))

\* `*count = 0;`
ResetCount(s) == [s EXCEPT !.error_count = 0]

\* `*state = HealthState::Healthy;`
ResetState(s) == [s EXCEPT !.state = "Healthy"]

\* the body of reset, executed with the counter and state locks held
ResetBody(s) == ResetState(ResetCount(s))

\* check_health run by a single caller at instant t: the guard afterwards and
\* the value returned
CheckHealth(s, t) ==
    IF s.state = "Open"
        THEN IF CooldownElapsed(s.last_failure, t)
            THEN [sre |-> ResetBody(s), ret |-> TRUE]
            ELSE [sre |-> s, ret |-> FALSE]
        ELSE [sre |-> s, ret |-> TRUE]

NoCall == [op |-> "none"]
NoGhost == [fails |-> 0, failed_at |-> 0]

\* the clock moves on by d seconds
Tick(d) ==
    /\ now + d <= MaxTime
    /\ now' = now + d

\* report_failure called by the only caller of the guard
GuardReportFailure ==
    /\ sre.error_count < MaxErr
    /\ sre' = ReportFailureBody(sre, now)
    /\ call' = [op |-> "report_failure"]
    /\ ghost' = [fails |-> ghost.fails + 1, failed_at |-> now]
    /\ UNCHANGED <<now, monVars, concVars, loopVars>>
    /\ UNCHANGED extVars

\* check_health called by the only caller of the guard
GuardCheckHealth ==
    LET r == CheckHealth(sre, now) IN
    /\ sre' = r.sre
    /\ call' = [op |-> "check_health", ret |-> r.ret, at |-> now,
                fails |-> ghost.fails, failed_at |-> ghost.failed_at]
    /\ ghost' = IF sre.state = "Open" /\ r.ret THEN NoGhost ELSE ghost
    /\ UNCHANGED <<now, monVars, concVars, loopVars>>
    /\ UNCHANGED extVars

\* record_metric: a log line, no state
GuardRecordMetric ==
    /\ call' = [op |-> "record_metric"]
    /\ UNCHANGED <<sre, now, ghost, monVars, concVars, loopVars>>
    /\ UNCHANGED extVars

GuardTick ==
    /\ Tick(1)
    /\ UNCHANGED <<sre, call, ghost, monVars, concVars, loopVars>>
    /\ UNCHANGED extVars

-----------------------------------------------------------------------------
(* The free-standing monitor *)

Procs == 1..NProcs
NoKG == [some |-> FALSE]
NoTick == [health |-> TRUE, mon |-> "not_evaluated", cycle |-> "none", at |-> 0]
LockNames == {"error_count", "state", "last_failure"}
AllFree == [l \in LockNames |-> 0]
NothingSeen == [state |-> "Healthy", last |-> None]

\* the components the monitor and the guard are not concerned with, as built
NoSource == [kind |-> "none"]
NewFeed == [current_price |-> InitialPrice, current_vol |-> InitialVol]
NewService == [active_session |-> None]
NewProducer == [pc |-> "tick", p |-> 0]

InitMon ==
    /\ monitor = NewMonitor
    /\ tolerance \in Tolerances
    /\ events = <<>> /\ states = <<>> /\ rets = <<>>
    /\ sre = NewSRE /\ now = 0 /\ call = NoCall /\ ghost = NoGhost
    /\ pc = [p \in Procs |-> "idle"]
    /\ locks = AllFree
    /\ seen = [p \in Procs |-> NothingSeen]
    /\ step = 1 /\ kg = NoKG /\ mgr_sre = NewSRE /\ ledger = <<>> /\ metrics = 0
    /\ tick = NoTick /\ running = TRUE
    /\ source = NoSource /\ fcall = NoCall
    /\ feed = NewFeed /\ draws = <<>>
    /\ qpu = NewService /\ qlog = <<>>
    /\ queue = <<>> /\ produced = 0 /\ consumed = <<>> /\ dip = 0
    /\ prod = NewProducer

NextMon == MonCheck

SpecMon == InitMon /\ [][NextMon]_vars

-----------------------------------------------------------------------------
(* The guard used by one caller *)

InitGuard ==
    /\ monitor = NewMonitor
    /\ tolerance = MainTolerance
    /\ events = <<>> /\ states = <<>> /\ rets = <<>>
    /\ sre = NewSRE /\ now = 0 /\ call = NoCall /\ ghost = NoGhost
    /\ pc = [p \in Procs |-> "idle"]
    /\ locks = AllFree
    /\ seen = [p \in Procs |-> NothingSeen]
    /\ step = 1 /\ kg = NoKG /\ mgr_sre = NewSRE /\ ledger = <<>> /\ metrics = 0
    /\ tick = NoTick /\ running = TRUE
    /\ source = NoSource /\ fcall = NoCall
    /\ feed = NewFeed /\ draws = <<>>
    /\ qpu = NewService /\ qlog = <<>>
    /\ queue = <<>> /\ produced = 0 /\ consumed = <<>> /\ dip = 0
    /\ prod = NewProducer

NextGuard ==
    \/ GuardReportFailure
    \/ GuardCheckHealth
    \/ GuardRecordMetric
    \/ GuardTick

SpecGuard == InitGuard /\ [][NextGuard]_vars

-----------------------------------------------------------------------------
(* The guard shared by concurrent callers.  Each Mutex::lock is a step that *)
(* waits for the mutex; a guard bound with `let` is held to the end of the  *)
(* function, a temporary one (`*self.state.lock().unwrap()`) to the end of  *)
(* its statement.                                                           *)

Free(l) == locks[l] = 0
Acquire(p, l) == locks' = [locks EXCEPT ![l] = p]
Goto(p, label) == pc' = [pc EXCEPT ![p] = label]

\* report_failure: `let mut err_count = self.error_count.lock().unwrap();`
RfLockCount(p) ==
    /\ pc[p] = "idle"
    /\ sre.error_count < MaxErr
    /\ Free("error_count")
    /\ Acquire(p, "error_count")
    /\ Goto(p, "rf_lock_state")
    /\ UNCHANGED <<sre, now, call, ghost, seen, monVars, loopVars>>
    /\ UNCHANGED extVars

\* report_failure: `let mut state = self.state.lock().unwrap();`
RfLockState(p) ==
    /\ pc[p] = "rf_lock_state"
    /\ Free("state")
    /\ Acquire(p, "state")
    /\ Goto(p, "rf_lock_last")
    /\ UNCHANGED <<sre, now, call, ghost, seen, monVars, loopVars>>
    /\ UNCHANGED extVars

\* report_failure: `let mut last_fail = self.last_failure.lock().unwrap();`
RfLockLast(p) ==
    /\ pc[p] = "rf_lock_last"
    /\ Free("last_failure")
    /\ Acquire(p, "last_failure")
    /\ Goto(p, "rf_record")
    /\ UNCHANGED <<sre, now, call, ghost, seen, monVars, loopVars>>
    /\ UNCHANGED extVars

\* report_failure: the counter and the timestamp are written
RfDoRecord(p) ==
    /\ pc[p] = "rf_record"
    /\ sre' = RfRecord(sre, now)
    /\ Goto(p, "rf_trip")
    /\ UNCHANGED <<now, call, ghost, locks, seen, monVars, loopVars>>
    /\ UNCHANGED extVars

\* report_failure: the breaker trips if the counter is over the threshold; the
\* function returns and the three guards are dropped
RfDoTrip(p) ==
    /\ pc[p] = "rf_trip"
    /\ sre' = RfTrip(sre)
    /\ locks' = AllFree
    /\ Goto(p, "idle")
    /\ UNCHANGED <<now, call, ghost, seen, monVars, loopVars>>
    /\ UNCHANGED extVars

\* check_health: `let state = *self.state.lock().unwrap();` and the test of it
ChReadState(p) ==
    /\ pc[p] = "idle"
    /\ Free("state")
    /\ seen' = [seen EXCEPT ![p].state = sre.state]
    /\ Goto(p, IF sre.state = "Open" THEN "ch_read_last" ELSE "idle")
    /\ UNCHANGED <<sre, now, call, ghost, locks, monVars, loopVars>>
    /\ UNCHANGED extVars

\* check_health: `let last = *self.last_failure.lock().unwrap();`
ChReadLast(p) ==
    /\ pc[p] = "ch_read_last"
    /\ Free("last_failure")
    /\ seen' = [seen EXCEPT ![p].last = sre.last_failure]
    /\ Goto(p, "ch_elapsed")
    /\ UNCHANGED <<sre, now, call, ghost, locks, monVars, loopVars>>
    /\ UNCHANGED extVars

\* check_health: `t.elapsed() > Duration::from_secs(30)`: call reset, or
\* return false
ChElapsed(p) ==
    /\ pc[p] = "ch_elapsed"
    /\ Goto(p, IF CooldownElapsed(seen[p].last, now) THEN "rs_lock_count" ELSE "idle")
    /\ seen' = [seen EXCEPT ![p] = NothingSeen]
    /\ UNCHANGED <<sre, now, call, ghost, locks, monVars, loopVars>>
    /\ UNCHANGED extVars

\* faulty variant: reset locks the state before the counter
ResetLockOrderReversed == <<"state", "error_count">>

\* reset: the mutexes in the order its two `let` statements lock them
ResetLockOrder == <<"error_count", "state">>

\* reset: `let mut count = self.error_count.lock().unwrap();`
RsLockCount(p) ==
    /\ pc[p] = "rs_lock_count"
    /\ Free(ResetLockOrder[1])
    /\ Acquire(p, ResetLockOrder[1])
    /\ Goto(p, "rs_lock_state")
    /\ UNCHANGED <<sre, now, call, ghost, seen, monVars, loopVars>>
    /\ UNCHANGED extVars

\* reset: `let mut state = self.state.lock().unwrap();`
RsLockState(p) ==
    /\ pc[p] = "rs_lock_state"
    /\ Free(ResetLockOrder[2])
    /\ Acquire(p, ResetLockOrder[2])
    /\ Goto(p, "rs_count")
    /\ UNCHANGED <<sre, now, call, ghost, seen, monVars, loopVars>>
    /\ UNCHANGED extVars

\* reset: `*count = 0;`
RsDoCount(p) ==
    /\ pc[p] = "rs_count"
    /\ sre' = ResetCount(sre)
    /\ Goto(p, "rs_state")
    /\ UNCHANGED <<now, call, ghost, locks, seen, monVars, loopVars>>
    /\ UNCHANGED extVars

\* reset: `*state = HealthState::Healthy;`, both guards are dropped and
\* check_health returns true
RsDoState(p) ==
    /\ pc[p] = "rs_state"
    /\ sre' = ResetState(sre)
    /\ locks' = AllFree
    /\ Goto(p, "idle")
    /\ UNCHANGED <<now, call, ghost, seen, monVars, loopVars>>
    /\ UNCHANGED extVars

\* record_metric is entered: it locks nothing
RmEnter(p) ==
    /\ pc[p] = "idle"
    /\ Goto(p, "rm_log")
    /\ UNCHANGED <<sre, now, call, ghost, locks, seen, monVars, loopVars>>
    /\ UNCHANGED extVars

\* record_metric: the log line is written and the function returns
RmReturn(p) ==
    /\ pc[p] = "rm_log"
    /\ Goto(p, "idle")
    /\ UNCHANGED <<sre, now, call, ghost, locks, seen, monVars, loopVars>>
    /\ UNCHANGED extVars

\* the clock moves on, by exactly the cooldown or by a second more
ConcTick ==
    /\ \E d \in {Cooldown, Cooldown + 1} : Tick(d)
    /\ UNCHANGED <<sre, call, ghost, monVars, concVars, loopVars>>
    /\ UNCHANGED extVars

InitConc ==
    /\ monitor = NewMonitor
    /\ tolerance = MainTolerance
    /\ events = <<>> /\ states = <<>> /\ rets = <<>>
    /\ sre = NewSRE /\ now = 0 /\ call = NoCall /\ ghost = NoGhost
    /\ pc = [p \in Procs |-> "idle"]
    /\ locks = AllFree
    /\ seen = [p \in Procs |-> NothingSeen]
    /\ step = 1 /\ kg = NoKG /\ mgr_sre = NewSRE /\ ledger = <<>> /\ metrics = 0
    /\ tick = NoTick /\ running = TRUE
    /\ source = NoSource /\ fcall = NoCall
    /\ feed = NewFeed /\ draws = <<>>
    /\ qpu = NewService /\ qlog = <<>>
    /\ queue = <<>> /\ produced = 0 /\ consumed = <<>> /\ dip = 0
    /\ prod = NewProducer

NextConc ==
    \/ \E p \in Procs :
        \/ RfLockCount(p)
        \/ RfLockState(p)
        \/ RfLockLast(p)
        \/ RfDoRecord(p)
        \/ RfDoTrip(p)
        \/ ChReadState(p)
        \/ ChReadLast(p)
        \/ ChElapsed(p)
        \/ RsLockCount(p)
        \/ RsLockState(p)
        \/ RsDoCount(p)
        \/ RsDoState(p)
        \/ RmEnter(p)
        \/ RmReturn(p)
    \/ ConcTick

SpecConc == InitConc /\ [][NextConc]_vars

\* the next step of the call that caller p is in
Continue(p) ==
    /\ pc[p] # "idle"
    /\ \/ RfLockState(p)
       \/ RfLockLast(p)
       \/ RfDoRecord(p)
       \/ RfDoTrip(p)
       \/ ChReadLast(p)
       \/ ChElapsed(p)
       \/ RsLockCount(p)
       \/ RsLockState(p)
       \/ RsDoCount(p)
       \/ RsDoState(p)
       \/ RmReturn(p)

\* the callers are threads: a call that can go on again and again does go
\* on, a mutex that is free again and again is obtained
SpecConcFair == SpecConc /\ \A p \in Procs : SF_vars(Continue(p))

-----------------------------------------------------------------------------
(* knowledge.rs, sre.rs CoherenceVerifier, manager.rs.  The fidelity-loss   *)
(* metric is a number in units of 1e-4.                                     *)

HeronId == "hw-ibm-heron"

\* a serde_json value stored under "eplg"
EplgNumber(n) == [kind |-> "number", e4 |-> n]
EplgString(parses, n) == [kind |-> "string", parses |-> parses, e4 |-> n]
EplgOther == [kind |-> "other"]

\* the property map of a node: with or without an "eplg" entry
PropsWith(v) == [has_eplg |-> TRUE, eplg |-> v]
PropsWithout == [has_eplg |-> FALSE]

\* a loaded knowledge graph: its nodes by identifier
KGOf(nodes) == [some |-> TRUE, nodes |-> nodes]

\* QuantumKnowledge::get_device_specs
GetDeviceSpecs(graph, id) ==
    IF id \in DOMAIN graph.nodes
        THEN [some |-> TRUE, props |-> graph.nodes[id]]
        ELSE [some |-> FALSE]

\* faulty variant: a metric that cannot be parsed counts as 0
ParseEplgDefaultsToZero(v) ==
    CASE v.kind = "number" -> v.e4
      [] v.kind = "string" -> IF v.parses THEN v.e4 ELSE 0
      [] OTHER -> 0

\* `s.parse::<f64>().unwrap_or(0.01)` / `eplg_val.as_f64().unwrap_or(0.01)`
ParseEplg(v) ==
    CASE v.kind = "number" -> v.e4
      [] v.kind = "string" -> IF v.parses THEN v.e4 ELSE DefaultEplg
      [] OTHER -> DefaultEplg

\* QuantumKnowledge::infer_optimal_strategy
InferOptimalStrategy(graph, target_hw) ==
    LET specs == GetDeviceSpecs(graph, target_hw) IN
    IF specs.some /\ specs.props.has_eplg
        THEN LET eplg == ParseEplg(specs.props.eplg) IN
             IF eplg < DeepBelow
                 THEN [strategy |-> "Deep-QAOA (High-Fi)", depth |-> 4]
                 ELSE IF eplg < BalancedBelow
                     THEN [strategy |-> "Balanced-QAOA", depth |-> 2]
                     ELSE [strategy |-> "Shallow-QAOA (NISQ)", depth |-> 1]
        ELSE [strategy |-> "Standard-QAOA", depth |-> 1]

\* faulty variant: a duration equal to the limit is rejected
VerifyRejectsEquality(depth, t1_micros) ==
    LET duration_us == depth * GateTimeCenti
        limit == t1_micros * MarginCenti
    IN  ~(duration_us >= limit)

\* CoherenceVerifier::verify, both sides in hundredths of a microsecond
Verify(depth, t1_micros) ==
    LET duration_us == depth * GateTimeCenti
        limit == t1_micros * MarginCenti
    IN  ~(duration_us > limit)

\* faulty variant: without a knowledge graph the limit is left at 0
CycleParamsNoDefaultLimit(k) ==
    IF k.some
        THEN LET r == InferOptimalStrategy(k, HeronId) IN
             [strategy |-> r.strategy, depth |-> r.depth,
              t1_limit |-> IF GetDeviceSpecs(k, HeronId).some THEN HeronT1 ELSE DefaultT1]
        ELSE [strategy |-> "Unknown", depth |-> 1, t1_limit |-> 0]

\* run_optimization_cycle, step 1: strategy, depth and T1 limit
CycleParams(k) ==
    IF k.some
        THEN LET r == InferOptimalStrategy(k, HeronId) IN
             [strategy |-> r.strategy, depth |-> r.depth,
              t1_limit |-> IF GetDeviceSpecs(k, HeronId).some THEN HeronT1 ELSE DefaultT1]
        ELSE [strategy |-> "Unknown", depth |-> 1, t1_limit |-> DefaultT1]

\* Ledger::record_transaction: `try_sign(..).expect(..)` panics when signing
\* fails; a log file that cannot be opened or written loses the entry
RecordTransaction(l, price, theta, job_id, sign_ok, file_ok) ==
    IF ~sign_ok THEN [ledger |-> l, panicked |-> TRUE]
    ELSE IF ~file_ok THEN [ledger |-> l, panicked |-> FALSE]
    ELSE [ledger |-> Append(l, [price |-> price, theta |-> theta, job_id |-> job_id]),
          panicked |-> FALSE]

\* the collaborator calls of a cycle, in the order the code makes them
CallVerify(ok) == [op |-> "verify", ret |-> ok]
CallSynth(ok) == [op |-> "generate_qaoa_circuit", ret |-> ok]
CallMetric == [op |-> "record_metric", ret |-> TRUE]
CallLedger(ok) == [op |-> "record_transaction", ret |-> ok]

\* faulty variant: the ledger is written before the metric is recorded
OkArmCallsLedgerFirst(returned) == <<CallLedger(returned), CallMetric>>

\* the Ok arm of the match: record_metric, then record_transaction
OkArmCalls(returned) == <<CallMetric, CallLedger(returned)>>

\* the early return of the cycle: nothing is called after the verification
AbortCalls == <<CallVerify(FALSE)>>

\* run_optimization_cycle from the verification on, for the parameters c of
\* step 1 and the collaborators' answers: synth_ok (generate_qaoa_circuit),
\* sign_ok and file_ok (the ledger).  Gives the ledger, the metric count and
\* both guards afterwards, and the calls made.
CycleBody(c, price, l, m, guard, mgr_guard, synth_ok, sign_ok, file_ok) ==
    IF ~Verify(c.depth * LayersPerDepth, c.t1_limit)
        THEN [outcome |-> "infeasible", ledger |-> l, metrics |-> m,
              sre |-> guard, mgr_sre |-> mgr_guard, panicked |-> FALSE,
              calls |-> AbortCalls]
    ELSE IF ~synth_ok
        THEN [outcome |-> "synth_failed", ledger |-> l, metrics |-> m,
              sre |-> guard, mgr_sre |-> mgr_guard, panicked |-> FALSE,
              calls |-> <<CallVerify(TRUE), CallSynth(FALSE)>>]
    ELSE LET t == RecordTransaction(l, price, 0, "mgr-job-id", sign_ok, file_ok) IN
         [outcome |-> IF t.panicked THEN "panic"
                      ELSE IF t.ledger = l THEN "not_persisted" ELSE "recorded",
          ledger |-> t.ledger, metrics |-> m + 1,
          sre |-> guard, mgr_sre |-> mgr_guard, panicked |-> t.panicked,
          calls |-> <<CallVerify(TRUE), CallSynth(TRUE)>> \o OkArmCalls(~t.panicked)]

\* QuantumManager::run_optimization_cycle
RunOptimizationCycle(k, price, l, m, guard, mgr_guard, synth_ok, sign_ok, file_ok) ==
    CycleBody(CycleParams(k), price, l, m, guard, mgr_guard, synth_ok, sign_ok, file_ok)

-----------------------------------------------------------------------------
(* main.rs: the consumer loop.  One action is one iteration of               *)
(* `while let Some(price) = rx.recv().await`, for any price received.  A     *)
(* value that is not skipped is handled within one second of the clock (the  *)
(* producer sends one every 50 ms); the clock moves in the 5 second sleep.   *)

LoopPrices == {99, 100, 101}

\* knowledge graphs the loop is started with: none, or one with the target node
LoopKGs == {NoKG, KGOf([n \in {HeronId} |-> PropsWith(EplgNumber(37))])}

\* faulty variant: the cycle is triggered at the logging interval
TriggerDueEveryTen(n) == n % 10 = 0

\* `step % 50 == 0`
TriggerDue(n) == n % TriggerInterval = 0

\* the loop is followed while the bounds of the model allow
LoopBounded ==
    /\ running
    /\ step < MaxStep
    /\ IsPending(monitor) => monitor.ticks < MaxPending

\* faulty variant: the monitor is evaluated before the health check is acted upon
LoopTickUnhealthyAfterMonitor ==
    /\ LoopBounded
    /\ ~CheckHealth(sre, now).ret
    /\ Tick(SleepSecs)
    /\ \E price \in LoopPrices :
        monitor' = Check(monitor, tolerance, PriceUpdate(price)).state
    /\ tick' = [health |-> FALSE, mon |-> "not_evaluated", cycle |-> "none", at |-> now]
    /\ UNCHANGED <<sre, step, kg, mgr_sre, ledger, metrics, running>>
    /\ UNCHANGED <<tolerance, events, states, rets, call, ghost, concVars>>
    /\ UNCHANGED extVars

\* an iteration in which check_health returns false: sleep 5 s and continue
LoopTickUnhealthy ==
    /\ LoopBounded
    /\ ~CheckHealth(sre, now).ret
    /\ Tick(SleepSecs)
    /\ tick' = [health |-> FALSE, mon |-> "not_evaluated", cycle |-> "none", at |-> now]
    /\ UNCHANGED <<sre, step, kg, mgr_sre, ledger, metrics, running>>
    /\ UNCHANGED <<monVars, call, ghost, concVars>>
    /\ UNCHANGED extVars

\* an iteration in which the monitor reports a violation: warn and continue
LoopTickViolation ==
    /\ LoopBounded
    /\ CheckHealth(sre, now).ret
    /\ \E price \in LoopPrices :
        LET r == Check(monitor, tolerance, PriceUpdate(price)) IN
        /\ ~r.ret
        /\ monitor' = r.state
    /\ sre' = CheckHealth(sre, now).sre
    /\ tick' = [health |-> TRUE, mon |-> "violation", cycle |-> "none", at |-> now]
    /\ UNCHANGED <<step, kg, mgr_sre, ledger, metrics, running, now>>
    /\ UNCHANGED <<tolerance, events, states, rets, call, ghost, concVars>>
    /\ UNCHANGED extVars

\* an iteration that passes both checks at a step where no cycle is due
LoopTickPass ==
    /\ LoopBounded
    /\ CheckHealth(sre, now).ret
    /\ ~TriggerDue(step)
    /\ \E price \in LoopPrices :
        LET r == Check(monitor, tolerance, PriceUpdate(price)) IN
        /\ r.ret
        /\ monitor' = r.state
    /\ sre' = CheckHealth(sre, now).sre
    /\ step' = step + 1
    /\ tick' = [health |-> TRUE, mon |-> "ok", cycle |-> "none", at |-> now]
    /\ UNCHANGED <<kg, mgr_sre, ledger, metrics, running, now>>
    /\ UNCHANGED <<tolerance, events, states, rets, call, ghost, concVars>>
    /\ UNCHANGED extVars

\* an iteration that passes both checks at a step where a cycle is due: the
\* pricing circuit is requested (its result is only logged) and
\* run_optimization_cycle runs, for any answer of the collaborators
LoopTickCycle ==
    /\ LoopBounded
    /\ CheckHealth(sre, now).ret
    /\ TriggerDue(step)
    /\ \E price \in LoopPrices, synth_ok, sign_ok, file_ok \in BOOLEAN :
        LET r == Check(monitor, tolerance, PriceUpdate(price))
            c == RunOptimizationCycle(kg, price, ledger, metrics,
                                      CheckHealth(sre, now).sre, mgr_sre,
                                      synth_ok, sign_ok, file_ok)
        IN
        /\ r.ret
        /\ monitor' = r.state
        /\ sre' = c.sre
        /\ mgr_sre' = c.mgr_sre
        /\ ledger' = c.ledger
        /\ metrics' = c.metrics
        /\ running' = ~c.panicked
        /\ step' = IF c.panicked THEN step ELSE step + 1
        /\ tick' = [health |-> TRUE, mon |-> "ok", cycle |-> c.outcome, at |-> now]
    /\ UNCHANGED <<kg, now>>
    /\ UNCHANGED <<tolerance, events, states, rets, call, ghost, concVars>>
    /\ UNCHANGED extVars

\* report_failure on the guard of the loop.  src/ holds no call of it (main
\* keeps its guard to itself, the manager reports nothing): the action stands
\* for a component holding the guard that reports a failure between two
\* iterations, so that the Open branch of the loop is exercised.
LoopReportFailure ==
    /\ running
    /\ sre.error_count < MaxErr
    /\ sre' = ReportFailureBody(sre, now)
    /\ UNCHANGED <<now, call, ghost, monVars, concVars, loopVars>>
    /\ UNCHANGED extVars

InitLoop ==
    /\ monitor = NewMonitor
    /\ tolerance = MainTolerance
    /\ events = <<>> /\ states = <<>> /\ rets = <<>>
    /\ sre = NewSRE /\ now = 0 /\ call = NoCall /\ ghost = NoGhost
    /\ pc = [p \in Procs |-> "idle"]
    /\ locks = AllFree
    /\ seen = [p \in Procs |-> NothingSeen]
    /\ step = 1 /\ kg \in LoopKGs /\ mgr_sre = NewSRE /\ ledger = <<>> /\ metrics = 0
    /\ tick = NoTick /\ running = TRUE
    /\ source = NoSource /\ fcall = NoCall
    /\ feed = NewFeed /\ draws = <<>>
    /\ qpu = NewService /\ qlog = <<>>
    /\ queue = <<>> /\ produced = 0 /\ consumed = <<>> /\ dip = 0
    /\ prod = NewProducer

NextLoop ==
    \/ LoopTickUnhealthy
    \/ LoopTickViolation
    \/ LoopTickPass
    \/ LoopTickCycle
    \/ LoopReportFailure

SpecLoop == InitLoop /\ [][NextLoop]_vars

-----------------------------------------------------------------------------
(* The manager on its own: it is built from a knowledge source and then runs *)
(* cycles; the inference and the verification are also called directly.      *)

OtherId == "hw-other"

\* what fs::read_to_string and serde_json::from_str make of the file
Unreadable == [kind |-> "unreadable"]
Unparsable == [kind |-> "unparsable"]
GraphFile(nodes) == [kind |-> "graph", nodes |-> nodes]
Node(id, props) == [id |-> id, properties |-> props]

\* nodes_map after the inserts in file order: the last node of an id stays
NodesMap(nodes) ==
    [id \in {nodes[i].id : i \in DOMAIN nodes} |->
        LET last == CHOOSE i \in DOMAIN nodes :
                        /\ nodes[i].id = id
                        /\ \A j \in DOMAIN nodes : nodes[j].id = id => j <= i
        IN  nodes[last].properties]

\* faulty variant: a file that does not parse gives an empty graph
NewKnowledgeEmptyOnError(src) ==
    IF src.kind = "unreadable" THEN NoKG
    ELSE IF src.kind = "unparsable" THEN KGOf(NodesMap(<<>>))
    ELSE KGOf(NodesMap(src.nodes))

\* QuantumKnowledge::new
NewKnowledge(src) ==
    IF src.kind = "unreadable" THEN NoKG
    ELSE IF src.kind = "unparsable" THEN NoKG
    ELSE KGOf(NodesMap(src.nodes))

\* the values tried for the fidelity-loss metric, in units of 1e-4
EplgNumbers == {-1, 9, 10, 49, 50, 100}
EplgValues ==
    {EplgNumber(n) : n \in EplgNumbers}
        \cup {EplgString(TRUE, n) : n \in {9, 10, 49, 50}}
        \cup {EplgString(FALSE, 0), EplgOther}
NodeProps == {PropsWithout} \cup {PropsWith(v) : v \in EplgValues}

\* the knowledge files the manager is built from
Sources ==
    {Unreadable, Unparsable, GraphFile(<<>>)}
        \cup {GraphFile(<<Node(HeronId, q)>>) : q \in NodeProps}
        \cup {GraphFile(<<Node(OtherId, PropsWith(EplgNumber(5)))>>),
              GraphFile(<<Node(HeronId, PropsWithout),
                          Node(HeronId, PropsWith(EplgNumber(5)))>>),
              GraphFile(<<Node(OtherId, PropsWith(EplgNumber(5))),
                          Node(HeronId, PropsWith(EplgString(TRUE, 30)))>>)}

\* the prices a cycle is run with
CyclePrices == {99, 101}

\* depth and limit tried for the cycle from the verification on
BodyDepths == {1, 2, 51}
BodyLimits == {1, 50}

\* depth and limit tried for verify
VerifyDepths == {0, 9, 10, 11, 1000, 1001, 2000}
VerifyLimits == {0, 1, 100}

\* what a cycle leaves in the history
CycleCall(op, c, price, r) ==
    [op |-> op, params |-> c, price |-> price, outcome |-> r.outcome,
     calls |-> r.calls, ledger_before |-> ledger, metrics_before |-> metrics]

\* one run_optimization_cycle of the manager, for any price and any answer of
\* the collaborators
CycleRun ==
    /\ running
    /\ metrics < MaxCycles
    /\ \E price \in CyclePrices, synth_ok, sign_ok, file_ok \in BOOLEAN :
        LET r == RunOptimizationCycle(kg, price, ledger, metrics, sre, mgr_sre,
                                      synth_ok, sign_ok, file_ok)
        IN
        /\ ledger' = r.ledger
        /\ metrics' = r.metrics
        /\ sre' = r.sre
        /\ mgr_sre' = r.mgr_sre
        /\ running' = ~r.panicked
        /\ fcall' = CycleCall("run_optimization_cycle", CycleParams(kg), price, r)
    /\ UNCHANGED <<source, kg, step, tick, now, call, ghost>>
    /\ UNCHANGED <<monVars, concVars, feedVars, qpuVars, chanVars>>

\* the cycle from the verification on (manager.rs:46), for values of the
\* locals depth and t1_limit that the inference of step 1 does not produce:
\* the early return is followed with them
CycleBodyRun ==
    /\ running
    /\ metrics < MaxCycles
    /\ \E depth \in BodyDepths, t1 \in BodyLimits, price \in CyclePrices,
          synth_ok, sign_ok, file_ok \in BOOLEAN :
        LET c == [strategy |-> "Unknown", depth |-> depth, t1_limit |-> t1]
            r == CycleBody(c, price, ledger, metrics, sre, mgr_sre,
                           synth_ok, sign_ok, file_ok)
        IN
        /\ ledger' = r.ledger
        /\ metrics' = r.metrics
        /\ sre' = r.sre
        /\ mgr_sre' = r.mgr_sre
        /\ running' = ~r.panicked
        /\ fcall' = CycleCall("cycle_body", c, price, r)
    /\ UNCHANGED <<source, kg, step, tick, now, call, ghost>>
    /\ UNCHANGED <<monVars, concVars, feedVars, qpuVars, chanVars>>

\* infer_optimal_strategy called on the loaded graph
InferCall ==
    /\ running
    /\ kg.some
    /\ \E target \in {HeronId, OtherId} :
        fcall' = [op |-> "infer_optimal_strategy", target |-> target,
                  ret |-> InferOptimalStrategy(kg, target)]
    /\ UNCHANGED <<source, guardVars, monVars, concVars, loopVars>>
    /\ UNCHANGED <<feedVars, qpuVars, chanVars>>

\* CoherenceVerifier::verify called with any depth and limit
VerifyCall ==
    /\ running
    /\ \E depth \in VerifyDepths, t1 \in VerifyLimits :
        fcall' = [op |-> "verify", depth |-> depth, t1 |-> t1,
                  ret |-> Verify(depth, t1)]
    /\ UNCHANGED <<source, guardVars, monVars, concVars, loopVars>>
    /\ UNCHANGED <<feedVars, qpuVars, chanVars>>

InitCycle ==
    /\ monitor = NewMonitor
    /\ tolerance = MainTolerance
    /\ events = <<>> /\ states = <<>> /\ rets = <<>>
    /\ sre = NewSRE /\ now = 0 /\ call = NoCall /\ ghost = NoGhost
    /\ pc = [p \in Procs |-> "idle"]
    /\ locks = AllFree
    /\ seen = [p \in Procs |-> NothingSeen]
    /\ source \in Sources
    /\ step = 1 /\ kg = NewKnowledge(source) /\ mgr_sre = NewSRE
    /\ ledger = <<>> /\ metrics = 0
    /\ tick = NoTick /\ running = TRUE
    /\ fcall = NoCall
    /\ feed = NewFeed /\ draws = <<>>
    /\ qpu = NewService /\ qlog = <<>>
    /\ queue = <<>> /\ produced = 0 /\ consumed = <<>> /\ dip = 0
    /\ prod = NewProducer

NextCycle ==
    \/ CycleRun
    \/ CycleBodyRun
    \/ InferCall
    \/ VerifyCall

SpecCycle == InitCycle /\ [][NextCycle]_vars

-----------------------------------------------------------------------------
(* main.rs: the producer task, the channel and the consumer loop.  A value   *)
(* is identified by its number in the order of generation; its price is      *)
(* above the threshold up to value number dip and below it from there on.    *)

\* the numbers tried for the first value below the threshold, 0 for none
DipChoices == {0, 1, 30, 45}

PriceOf(v) == IF dip # 0 /\ v >= dip THEN 99 ELSE 101

\* faulty variant: a value sent to a full channel is discarded
SendDroppingWhenFull(q, v, rx_open) ==
    IF ~rx_open THEN [done |-> TRUE, ok |-> FALSE, queue |-> q]
    ELSE IF Len(q) < ChannelCap
        THEN [done |-> TRUE, ok |-> TRUE, queue |-> Append(q, v)]
        ELSE [done |-> TRUE, ok |-> TRUE, queue |-> q]

\* `tx.send(p).await` on the channel of capacity 32: an error once the
\* receiver is dropped, the value enqueued when there is room, and no
\* completion while the channel is full
Send(q, v, rx_open) ==
    IF ~rx_open THEN [done |-> TRUE, ok |-> FALSE, queue |-> q]
    ELSE IF Len(q) < ChannelCap
        THEN [done |-> TRUE, ok |-> TRUE, queue |-> Append(q, v)]
        ELSE [done |-> FALSE, ok |-> FALSE, queue |-> q]

\* `let p = sim_feed.next_tick()`: the producer has generated its next value
ProducerTick ==
    /\ prod.pc = "tick"
    /\ produced < MaxProduced
    /\ produced' = produced + 1
    /\ prod' = [pc |-> "send", p |-> produced + 1]
    /\ UNCHANGED <<queue, consumed, dip>>
    /\ UNCHANGED <<monVars, guardVars, concVars, loopVars, cycVars, feedVars, qpuVars>>

\* the send completes: the value is in the channel, the producer sleeps 50 ms
\* and is back at the top of its loop
ProducerSend ==
    /\ prod.pc = "send"
    /\ LET r == Send(queue, prod.p, running) IN
        /\ r.done
        /\ r.ok
        /\ queue' = r.queue
    /\ prod' = [pc |-> "tick", p |-> 0]
    /\ UNCHANGED <<produced, consumed, dip>>
    /\ UNCHANGED <<monVars, guardVars, concVars, loopVars, cycVars, feedVars, qpuVars>>

\* the send returns an error: `break`, the task ends
ProducerSendFails ==
    /\ prod.pc = "send"
    /\ LET r == Send(queue, prod.p, running) IN
        /\ r.done
        /\ ~r.ok
        /\ queue' = r.queue
    /\ prod' = [pc |-> "done", p |-> 0]
    /\ UNCHANGED <<produced, consumed, dip>>
    /\ UNCHANGED <<monVars, guardVars, concVars, loopVars, cycVars, feedVars, qpuVars>>

\* one iteration of `while let Some(price) = rx.recv().await`: the oldest
\* value of the channel is received and handled as main.rs:61-87 does, for
\* any answer of the collaborators of the cycle
Consume ==
    /\ running
    /\ queue # <<>>
    /\ step < MaxStep
    /\ \E synth_ok, sign_ok, file_ok \in BOOLEAN :
        LET v == Head(queue)
            price == PriceOf(v)
            h == CheckHealth(sre, now)
            r == Check(monitor, tolerance, PriceUpdate(price))
            due == h.ret /\ r.ret /\ TriggerDue(step)
            c == RunOptimizationCycle(kg, price, ledger, metrics, h.sre, mgr_sre,
                                      synth_ok, sign_ok, file_ok)
        IN
        /\ queue' = Tail(queue)
        /\ consumed' = Append(consumed, v)
        /\ now' = IF h.ret THEN now ELSE now + SleepSecs
        /\ monitor' = IF h.ret THEN r.state ELSE monitor
        /\ events' = IF h.ret THEN Append(events, PriceUpdate(price)) ELSE events
        /\ states' = IF h.ret THEN Append(states, r.state) ELSE states
        /\ rets' = IF h.ret THEN Append(rets, r.ret) ELSE rets
        /\ sre' = IF due THEN c.sre ELSE h.sre
        /\ mgr_sre' = IF due THEN c.mgr_sre ELSE mgr_sre
        /\ ledger' = IF due THEN c.ledger ELSE ledger
        /\ metrics' = IF due THEN c.metrics ELSE metrics
        /\ running' = IF due THEN ~c.panicked ELSE running
        /\ step' = IF h.ret /\ r.ret /\ ~(due /\ c.panicked) THEN step + 1 ELSE step
        /\ tick' = [health |-> h.ret,
                    mon |-> IF ~h.ret THEN "not_evaluated"
                            ELSE IF r.ret THEN "ok" ELSE "violation",
                    cycle |-> IF due THEN c.outcome ELSE "none",
                    at |-> now]
    /\ UNCHANGED <<tolerance, call, ghost, kg, produced, dip, prod>>
    /\ UNCHANGED <<concVars, cycVars, feedVars, qpuVars>>

InitChan ==
    /\ monitor = NewMonitor
    /\ tolerance = MainTolerance
    /\ events = <<>> /\ states = <<>> /\ rets = <<>>
    /\ sre = NewSRE /\ now = 0 /\ call = NoCall /\ ghost = NoGhost
    /\ pc = [p \in Procs |-> "idle"]
    /\ locks = AllFree
    /\ seen = [p \in Procs |-> NothingSeen]
    /\ step = 1 /\ kg \in LoopKGs /\ mgr_sre = NewSRE /\ ledger = <<>> /\ metrics = 0
    /\ tick = NoTick /\ running = TRUE
    /\ source = NoSource /\ fcall = NoCall
    /\ feed = NewFeed /\ draws = <<>>
    /\ qpu = NewService /\ qlog = <<>>
    /\ queue = <<>> /\ produced = 0 /\ consumed = <<>> /\ dip \in DipChoices
    /\ prod = NewProducer

NextChan ==
    \/ ProducerTick
    \/ ProducerSend
    \/ ProducerSendFails
    \/ Consume

SpecChan == InitChan /\ [][NextChan]_vars

-----------------------------------------------------------------------------
(* feed/mod.rs: the Heston generator in fixed point.  The variance is a      *)
(* number of 1e-4, the price a number of hundredths, a normal draw a whole   *)
(* number of standard deviations; a quotient is rounded down.                *)

\* the normal draws tried
Draws == {-8, 0, 8}

\* the integer part of the square root of n, found between lo and hi
RECURSIVE RootBetween(_, _, _)
RootBetween(n, lo, hi) ==
    IF lo >= hi THEN lo
    ELSE LET mid == (lo + hi + 1) \div 2 IN
         IF mid * mid <= n THEN RootBetween(n, mid, hi)
                           ELSE RootBetween(n, lo, mid - 1)

ISqrt(n) == RootBetween(n, 0, SqrtCap)

\* sqrt(dt) as the inverse of sqrt(252) in tenths
InvSqrtDtTenths == ISqrt(StepsPerYear * 100)

\* `rho * z1 + (1 - rho^2).sqrt() * sample`, in hundredths
Correlated(z1, n2) == RhoPct * z1 + ISqrt(10000 - RhoPct * RhoPct) * n2

\* `kappa * (theta - v) * dt + xi * v.sqrt() * z2 * dt.sqrt()`, in units of 1e-4
VolStep(vol, z2) ==
    (Kappa * (ThetaE4 - vol)) \div StepsPerYear
        + (ISqrt(100 * vol) * z2) \div (XiInverse * InvSqrtDtTenths)

\* faulty variant: the new variance is stored as computed
FlooredUnclamped(v) == v

\* `.max(0.001)`
Floored(v) == IF v < VolFloorE4 THEN VolFloorE4 ELSE v

\* `drift * price * dt + vol.sqrt() * price * z1 * dt.sqrt()`, in hundredths
PriceStep(price, vol, z1) ==
    (DriftPct * price) \div (100 * StepsPerYear)
        + (ISqrt(100 * vol) * price * z1) \div (100 * InvSqrtDtTenths)

\* SentinelFeed::next_tick with the two draws: the generator afterwards, the
\* variance before the floor is applied, and the price returned
NextTick(f, z1, n2) ==
    LET z2 == Correlated(z1, n2)
        raw == f.current_vol + VolStep(f.current_vol, z2)
        vol == Floored(raw)
        price == f.current_price + PriceStep(f.current_price, vol, z1)
    IN  [feed |-> [current_price |-> price, current_vol |-> vol],
         raw |-> raw, ret |-> price]

\* one call of next_tick, for any pair of draws
FeedTick ==
    /\ Len(draws) < MaxFeedTicks
    /\ \E z1, n2 \in Draws :
        LET r == NextTick(feed, z1, n2) IN
        /\ feed' = r.feed
        /\ draws' = Append(draws, [z1 |-> z1, n2 |-> n2, raw |-> r.raw, ret |-> r.ret])
    /\ UNCHANGED <<monVars, guardVars, concVars, loopVars, cycVars, qpuVars, chanVars>>

InitFeed ==
    /\ monitor = NewMonitor
    /\ tolerance = MainTolerance
    /\ events = <<>> /\ states = <<>> /\ rets = <<>>
    /\ sre = NewSRE /\ now = 0 /\ call = NoCall /\ ghost = NoGhost
    /\ pc = [p \in Procs |-> "idle"]
    /\ locks = AllFree
    /\ seen = [p \in Procs |-> NothingSeen]
    /\ step = 1 /\ kg = NoKG /\ mgr_sre = NewSRE /\ ledger = <<>> /\ metrics = 0
    /\ tick = NoTick /\ running = TRUE
    /\ source = NoSource /\ fcall = NoCall
    /\ feed = NewFeed /\ draws = <<>>
    /\ qpu = NewService /\ qlog = <<>>
    /\ queue = <<>> /\ produced = 0 /\ consumed = <<>> /\ dip = 0
    /\ prod = NewProducer

NextFeed == FeedTick

SpecFeed == InitFeed /\ [][NextFeed]_vars

-----------------------------------------------------------------------------
(* qpu/mod.rs: the client of the execution backend.  The answers of the      *)
(* remote service are inputs; a session id is the number of the session.     *)

Backends == {"ibm_a", "ibm_b"}

\* what the POST of open_session can come to: the request fails, the service
\* answers with success and a body that holds an id, that is not JSON or
\* that holds no id, or the service refuses
OpenAnswers == {"send_error", "created", "bad_body", "no_id", "refused"}

\* what the POST of run_job can come to
RunAnswers == {"send_error", "accepted", "refused"}

SessionOf(id) == [some |-> TRUE, id |-> id]

\* QiskitRuntimeService::open_session: the service afterwards, Ok or Err
OpenSession(svc, backend_name, answer, id) ==
    IF answer = "created"
        THEN [svc |-> [svc EXCEPT !.active_session = SessionOf(id)], ok |-> TRUE]
        ELSE [svc |-> svc, ok |-> FALSE]

\* QiskitRuntimeService::run_job: whether the job was posted, under which
\* session, and Ok or Err
RunJob(svc, answer) ==
    IF ~svc.active_session.some
        THEN [submitted |-> FALSE, session |-> 0, ok |-> FALSE]
        ELSE [submitted |-> TRUE, session |-> svc.active_session.id,
              ok |-> answer = "accepted"]

\* QiskitRuntimeService::close_session: the session the DELETE names, 0 when
\* there is none; the field is left as it is
CloseSession(svc) ==
    [svc |-> svc,
     deleted |-> IF svc.active_session.some THEN svc.active_session.id ELSE 0]

\* the sessions the remote service has created so far
SessionsCreated ==
    Cardinality({i \in DOMAIN qlog : qlog[i].op = "open_session" /\ qlog[i].ok})

QpuOpenSession ==
    /\ Len(qlog) < MaxQpuCalls
    /\ \E backend \in Backends, answer \in OpenAnswers :
        LET id == SessionsCreated + 1
            r == OpenSession(qpu, backend, answer, id)
        IN
        /\ qpu' = r.svc
        /\ qlog' = Append(qlog, [op |-> "open_session", backend |-> backend,
                                 answer |-> answer, ok |-> r.ok,
                                 session |-> IF r.ok THEN id ELSE 0])
    /\ UNCHANGED <<monVars, guardVars, concVars, loopVars, cycVars, feedVars, chanVars>>

QpuRunJob ==
    /\ Len(qlog) < MaxQpuCalls
    /\ \E answer \in RunAnswers :
        LET r == RunJob(qpu, answer) IN
        qlog' = Append(qlog, [op |-> "run_job", submitted |-> r.submitted,
                              answer |-> answer, ok |-> r.ok,
                              session |-> r.session])
    /\ UNCHANGED qpu
    /\ UNCHANGED <<monVars, guardVars, concVars, loopVars, cycVars, feedVars, chanVars>>

QpuCloseSession ==
    /\ Len(qlog) < MaxQpuCalls
    /\ LET r == CloseSession(qpu) IN
        /\ qpu' = r.svc
        /\ qlog' = Append(qlog, [op |-> "close_session", ok |-> TRUE,
                                 session |-> r.deleted])
    /\ UNCHANGED <<monVars, guardVars, concVars, loopVars, cycVars, feedVars, chanVars>>

InitQpu ==
    /\ monitor = NewMonitor
    /\ tolerance = MainTolerance
    /\ events = <<>> /\ states = <<>> /\ rets = <<>>
    /\ sre = NewSRE /\ now = 0 /\ call = NoCall /\ ghost = NoGhost
    /\ pc = [p \in Procs |-> "idle"]
    /\ locks = AllFree
    /\ seen = [p \in Procs |-> NothingSeen]
    /\ step = 1 /\ kg = NoKG /\ mgr_sre = NewSRE /\ ledger = <<>> /\ metrics = 0
    /\ tick = NoTick /\ running = TRUE
    /\ source = NoSource /\ fcall = NoCall
    /\ feed = NewFeed /\ draws = <<>>
    /\ qpu = NewService /\ qlog = <<>>
    /\ queue = <<>> /\ produced = 0 /\ consumed = <<>> /\ dip = 0
    /\ prod = NewProducer

NextQpu ==
    \/ QpuOpenSession
    \/ QpuRunJob
    \/ QpuCloseSession

SpecQpu == InitQpu /\ [][NextQpu]_vars

-----------------------------------------------------------------------------
(* Claims about the free-standing monitor (SpecMon) *)

IsHedge(i) == events[i].kind = "HedgeExecuted"
NoHedgeIn(i, j) == \A h \in (i + 1)..j : ~IsHedge(h)
StateBefore(i) == IF i = 1 THEN [tag |-> "Safe"] ELSE states[i - 1]
SubThresholdAt(i) == events[i].kind = "PriceUpdate" /\ events[i].price < 100

\* C1: once the monitor has entered Pending(0), the k-th following event that
\* is not HedgeExecuted makes check return true for k in 1..tolerance and
\* false for every k > tolerance, as long as no HedgeExecuted has been passed.
C1_ToleranceBoundary ==
    \A i \in 1..Len(events) : \A j \in (i + 1)..Len(events) :
        (states[i] = [tag |-> "PendingHedge", ticks |-> 0] /\ NoHedgeIn(i, j))
            => (rets[j] = (j - i <= tolerance))

\* C1 witness: with a tolerance of at least 1, tick number tolerance passed
\* and tick number tolerance + 1 was reported as a violation.
C1_Witness ==
    /\ tolerance >= 1
    /\ \E i \in 1..Len(events) :
        LET j == i + tolerance + 1 IN
        /\ j <= Len(events)
        /\ states[i] = [tag |-> "PendingHedge", ticks |-> 0]
        /\ NoHedgeIn(i, j)
        /\ rets[j - 1] = TRUE
        /\ rets[j] = FALSE

\* C2: after any event sequence on a fresh monitor, the monitor is Pending
\* exactly when some price update below 100 was applied while the monitor was
\* Clear and no HedgeExecuted has been passed since that update.
C2_PendingIffOpenObligation ==
    (monitor.tag = "PendingHedge")
        <=> (\E i \in 1..Len(events) :
                /\ SubThresholdAt(i)
                /\ StateBefore(i).tag = "Safe"
                /\ NoHedgeIn(i, Len(events)))

\* C2 witness: an obligation was met by a HedgeExecuted and a later
\* sub-threshold price opened a new one, which is still pending.
C2_Witness ==
    /\ monitor.tag = "PendingHedge"
    /\ \E h \in 2..Len(events) :
        /\ IsHedge(h)
        /\ states[h - 1].tag = "PendingHedge"
        /\ \E i \in (h + 1)..Len(events) : SubThresholdAt(i)

FixedPrices ==
    << [kind |-> "PriceUpdate", price |-> 101], [kind |-> "PriceUpdate", price |-> 99],
       [kind |-> "PriceUpdate", price |-> 98], [kind |-> "PriceUpdate", price |-> 100] >>

FedFixedPrices ==
    /\ tolerance = 10
    /\ Len(events) >= 4
    /\ SubSeq(events, 1, 4) = FixedPrices

\* C3 as stated: the prices 101, 99, 98, 100 fed to a fresh monitor with
\* tolerance 10 leave it in Clear, Pending(0), Pending(1), Pending(1).
C3_Original ==
    FedFixedPrices =>
        SubSeq(states, 1, 4) =
            << [tag |-> "Safe"], [tag |-> "PendingHedge", ticks |-> 0],
               [tag |-> "PendingHedge", ticks |-> 1], [tag |-> "PendingHedge", ticks |-> 1] >>

\* C3 amended: the prices 101, 99, 98, 100 leave the monitor in Clear,
\* Pending(0), Pending(1), Pending(2); a following HedgeExecuted restores
\* Clear and any other following event leaves it Pending (at 3 ticks).
C3_FixedPricesTrace ==
    FedFixedPrices =>
        /\ SubSeq(states, 1, 4) =
            << [tag |-> "Safe"], [tag |-> "PendingHedge", ticks |-> 0],
               [tag |-> "PendingHedge", ticks |-> 1], [tag |-> "PendingHedge", ticks |-> 2] >>
        /\ Len(events) = 4 => monitor = [tag |-> "PendingHedge", ticks |-> 2]
        /\ Len(events) >= 5 =>
            states[5] = IF IsHedge(5) THEN [tag |-> "Safe"]
                        ELSE [tag |-> "PendingHedge", ticks |-> 3]

\* C3 witness: the four prices were fed and a HedgeExecuted then restored Clear.
C3_Witness ==
    /\ FedFixedPrices
    /\ Len(events) = 5
    /\ IsHedge(5)
    /\ monitor = [tag |-> "Safe"]

-----------------------------------------------------------------------------
(* Claims about the guard used by one caller (SpecGuard) *)

SixFailuresThenCheck ==
    /\ call.op = "check_health"
    /\ call.fails >= 6

\* C4: after six report_failure calls with no reset in between, check_health
\* returns false (and leaves the guard Open) while at most 30 seconds have
\* passed since the last failure; called after more than 30 seconds it
\* returns true, and the guard is then Healthy with a counter of zero.
C4_OpenUntilCooldown ==
    SixFailuresThenCheck =>
        IF call.at - call.failed_at <= 30
            THEN call.ret = FALSE /\ sre.state = "Open" /\ sre.error_count >= 6
            ELSE call.ret = TRUE /\ sre.state = "Healthy" /\ sre.error_count = 0

\* C4 witness: six failures, then a check_health 31 seconds after the last
\* one, which returned true and reset the guard.
C4_Witness ==
    /\ SixFailuresThenCheck
    /\ call.fails = 6
    /\ call.at - call.failed_at = 31
    /\ call.ret = TRUE
    /\ sre.state = "Healthy"
    /\ sre.error_count = 0

-----------------------------------------------------------------------------
(* Claims about the guard shared by concurrent callers (SpecConc) *)

NoLockHeld == \A l \in {"error_count", "state", "last_failure"} : locks[l] = 0

\* C5: whenever no operation holds a lock of the guard, the state is Open
\* only if the error counter is greater than 5.
C5_OpenImpliesOverThreshold ==
    NoLockHeld => (sre.state = "Open" => sre.error_count > 5)

\* C5 witness: the guard is Open with no lock held while one caller has
\* decided to reset and another failure has been recorded since.
C5_Witness ==
    /\ NoLockHeld
    /\ sre.state = "Open"
    /\ sre.error_count > 6
    /\ \E p \in DOMAIN pc : pc[p] = "rs_lock_count"

\* C6: the state changes from Open to Healthy only at a moment when more
\* than 30 seconds have passed since the most recently recorded failure.
C6_ResetOnlyAfterCooldown ==
    [][(sre.state = "Open" /\ sre'.state = "Healthy")
        => (sre.last_failure.some /\ now - sre.last_failure.at > 30)]_vars

-----------------------------------------------------------------------------
(* Claims about the consumer loop (SpecLoop) *)

\* a step of the loop that consumed a value
TickConsumed == tick' # tick \/ step' # step \/ monitor' # monitor

\* check_health would return false in the current state
HealthDenies ==
    /\ sre.state = "Open"
    /\ sre.last_failure.some => now - sre.last_failure.at <= 30

\* C7: when the synthesis call of a cycle fails, no metric and no ledger
\* record are produced and the error counter of the guard that gates the
\* consumer loop goes up by one.
C7_SynthesisFailureReported ==
    [][(tick'.cycle = "synth_failed" /\ step' = step + 1)
        => /\ ledger' = ledger
           /\ metrics' = metrics
           /\ sre'.error_count = sre.error_count + 1]_vars

\* C8 as stated: a cycle runs for a consumed value only if the step counter
\* is a multiple of 50 and check_health returned true; every other tick runs
\* no cycle and mutates no state.
C8_Original ==
    [][TickConsumed =>
        /\ tick'.cycle # "none" => (step % 50 = 0 /\ tick'.health)
        /\ ~(step % 50 = 0 /\ tick'.health) =>
            /\ tick'.cycle = "none"
            /\ UNCHANGED <<monitor, step, sre, ledger, metrics>>]_vars

\* C8 amended: a cycle runs for a consumed value only if the step counter is
\* a multiple of 50 and check_health and the monitor both returned true;
\* every other tick runs no cycle and leaves the ledger and the metrics
\* alone; a tick that passed the health check is evaluated by the monitor
\* and, if it passes, increments the step counter; a tick on which
\* check_health returned false changes neither the monitor, the step counter
\* nor the guard.
C8_CycleOnlyWhenDue ==
    [][TickConsumed =>
        /\ tick'.cycle # "none" =>
            (step % 50 = 0 /\ tick'.health /\ tick'.mon = "ok")
        /\ ~(step % 50 = 0 /\ tick'.health) =>
            /\ tick'.cycle = "none"
            /\ UNCHANGED <<ledger, metrics>>
        /\ tick'.health => tick'.mon # "not_evaluated"
        /\ (tick'.health /\ tick'.mon = "ok" /\ running') => step' = step + 1
        /\ ~tick'.health => UNCHANGED <<monitor, step, sre>>]_vars

\* C8 witness: forty-nine ticks passed without a cycle and the fiftieth ran
\* one, which reached the ledger.
C8_Witness ==
    /\ step = 51
    /\ tick.cycle = "recorded"
    /\ Len(ledger) = 1

\* C9: after a tick suppressed for a monitor violation the process is still
\* running and the loop is again able to let a value through to dispatch.
C9_SuppressedThisTickOnly ==
    (/\ tick.mon = "violation"
     /\ sre.state = "Healthy"
     /\ step < MaxStep
     /\ monitor.ticks < MaxPending)
        => (running /\ ENABLED (LoopTickPass \/ LoopTickCycle))

\* C10: a tick on which check_health returns false changes neither the
\* monitor, the step counter, the ledger, the metrics nor the guard and runs
\* no cycle; a tick consumed once more than 30 seconds have passed since the
\* last failure passes the health check, closes the breaker and is given to
\* the monitor.
C10_UnhealthyTickSkipped ==
    [][TickConsumed =>
        /\ HealthDenies =>
            /\ ~tick'.health
            /\ tick'.mon = "not_evaluated"
            /\ tick'.cycle = "none"
            /\ UNCHANGED <<monitor, step, ledger, metrics, sre>>
        /\ (sre.state = "Open" /\ ~HealthDenies) =>
            /\ tick'.health
            /\ tick'.mon # "not_evaluated"
            /\ sre'.state = "Healthy"
            /\ sre'.error_count = 0]_vars

\* C10 witness: the breaker opened, ticks were skipped until the cooldown had
\* passed, and the tick after that was processed and passed the monitor.
C10_Witness ==
    /\ tick.health
    /\ tick.mon = "ok"
    /\ sre.last_failure.some
    /\ tick.at - sre.last_failure.at > 30
    /\ sre.state = "Healthy"
    /\ sre.error_count = 0
    /\ step > 1

-----------------------------------------------------------------------------
(* Claims about the manager on its own (SpecCycle) *)

IsCycle == fcall.op \in {"run_optimization_cycle", "cycle_body"}
CallsOf(op) == {i \in DOMAIN fcall.calls : fcall.calls[i].op = op}

\* C11: within one run_optimization_cycle record_transaction is called at
\* most once, and only after the verification returned true and the
\* synthesis succeeded, the metric being recorded before it; when the
\* verification returns false, the verification is the only call of the
\* cycle (no synthesis, no metric, no ledger call, no second attempt) and
\* ledger and metric count are as they were.
C11_LedgerAfterVerifyAndSynthesis ==
    IsCycle =>
        /\ Cardinality(CallsOf("record_transaction")) <= 1
        /\ Cardinality(CallsOf("verify")) = 1
        /\ fcall.calls[1] =
               CallVerify(fcall.params.depth * 10 * 5 <= fcall.params.t1_limit * 50)
        /\ Len(ledger) <= Len(fcall.ledger_before) + 1
        /\ ledger # fcall.ledger_before => CallsOf("record_transaction") # {}
        /\ metrics # fcall.metrics_before => CallsOf("record_metric") # {}
        /\ \A i \in CallsOf("record_transaction") :
            /\ \E v \in 1..(i - 1) : fcall.calls[v] = CallVerify(TRUE)
            /\ \E g \in 1..(i - 1) : fcall.calls[g] = CallSynth(TRUE)
            /\ \E m \in 1..(i - 1) : fcall.calls[m] = CallMetric
        /\ fcall.calls[1] = CallVerify(FALSE) =>
            /\ Len(fcall.calls) = 1
            /\ ledger = fcall.ledger_before
            /\ metrics = fcall.metrics_before

\* C11 witness: a cycle has been recorded in the ledger, and the cycle after
\* it was aborted by the verification.
C11_Witness ==
    /\ IsCycle
    /\ fcall.outcome = "infeasible"
    /\ Len(ledger) = 1
    /\ metrics = 1

-----------------------------------------------------------------------------
(* Claims about the ledger in the consumer loop (SpecLoop) *)

\* C12: a tick on which the cycle is due and both checks pass ends with the
\* process running and the loop going on to the next value, whatever the
\* ledger answers when it is asked to sign and to append.
C12_LedgerFailureNotFatal ==
    [][(running /\ TriggerDue(step) /\ tick'.health /\ tick'.mon = "ok"
            /\ tick'.cycle # "none")
        => (running' /\ step' = step + 1)]_vars

-----------------------------------------------------------------------------
(* Claims about the knowledge source (SpecCycle) *)

SourceFailed == source.kind \in {"unreadable", "unparsable"}

\* C13: when the knowledge file cannot be read or parsed the manager is built
\* without a knowledge graph and runs; each of its cycles then works with
\* depth 1 and a coherence limit of 50, and goes on to the verification,
\* which accepts, and to the synthesis.
C13_NoKnowledgeFallsBack ==
    SourceFailed =>
        /\ ~kg.some
        /\ fcall = NoCall => running
        /\ fcall.op = "run_optimization_cycle" =>
            /\ fcall.params.depth = 1
            /\ fcall.params.t1_limit = 50
            /\ Len(fcall.calls) >= 2
            /\ fcall.calls[1] = CallVerify(TRUE)
            /\ fcall.calls[2].op = "generate_qaoa_circuit"

\* C13 witness: the file did not parse and the manager has run a second
\* cycle after a first one that reached the ledger.
C13_Witness ==
    /\ source = Unparsable
    /\ fcall.op = "run_optimization_cycle"
    /\ fcall.metrics_before = 1
    /\ Len(fcall.calls) = 4

-----------------------------------------------------------------------------
(* Claims about the strategy inference (SpecCycle) *)

\* the metric of a property map as a number in units of 1e-4: the number
\* stored, the number a string spells, 0.01 for anything else
MetricE4(props) ==
    IF props.eplg.kind = "number" THEN props.eplg.e4
    ELSE IF props.eplg.kind = "string" /\ props.eplg.parses THEN props.eplg.e4
    ELSE 100

\* C14: infer_optimal_strategy gives depth 4 and the deep label for a metric
\* below 1e-3, depth 2 and the balanced label for a metric in [1e-3, 5e-3),
\* depth 1 and the shallow label for a metric of at least 5e-3, a metric that
\* does not parse counting as 0.01; it gives depth 1 and the standard label
\* when the node has no metric or the graph has no such node.
C14_InferenceThresholds ==
    fcall.op = "infer_optimal_strategy" =>
        IF fcall.target \notin DOMAIN kg.nodes
            THEN fcall.ret = [strategy |-> "Standard-QAOA", depth |-> 1]
        ELSE IF ~kg.nodes[fcall.target].has_eplg
            THEN fcall.ret = [strategy |-> "Standard-QAOA", depth |-> 1]
        ELSE LET metric == MetricE4(kg.nodes[fcall.target]) IN
            /\ metric < 10 =>
                fcall.ret = [strategy |-> "Deep-QAOA (High-Fi)", depth |-> 4]
            /\ (10 <= metric /\ metric < 50) =>
                fcall.ret = [strategy |-> "Balanced-QAOA", depth |-> 2]
            /\ 50 <= metric =>
                fcall.ret = [strategy |-> "Shallow-QAOA (NISQ)", depth |-> 1]

\* C14 witness: the inference was asked for a node whose metric is a string
\* that does not parse, and answered with the shallow strategy.
C14_Witness ==
    /\ fcall.op = "infer_optimal_strategy"
    /\ fcall.target \in DOMAIN kg.nodes
    /\ kg.nodes[fcall.target] = PropsWith(EplgString(FALSE, 0))
    /\ fcall.ret.depth = 1

-----------------------------------------------------------------------------
(* Claims about the coherence verification (SpecCycle) *)

\* C15: verify returns true exactly when depth x 0.05 is at most limit x 0.5,
\* that is when the depth is at most ten times the limit, equality included:
\* verify(10, 100) is true and verify(2000, 1) is false.  A call of verify
\* changes neither the guards, the ledger, the metric count nor the graph.
C15_VerifyThreshold ==
    /\ [](fcall.op = "verify" =>
            /\ fcall.ret = (fcall.depth <= 10 * fcall.t1)
            /\ (fcall.depth = 10 /\ fcall.t1 = 100) => fcall.ret
            /\ (fcall.depth = 2000 /\ fcall.t1 = 1) => ~fcall.ret)
    /\ [][(fcall'.op = "verify" /\ fcall' # fcall)
            => UNCHANGED <<sre, mgr_sre, ledger, metrics, kg, running, monitor>>]_vars

\* C15 witness: after a cycle that reached the ledger, verify was called with
\* a depth of exactly ten times the limit and accepted it.
C15_Witness ==
    /\ fcall.op = "verify"
    /\ fcall.depth = 1000
    /\ fcall.t1 = 100
    /\ fcall.ret
    /\ Len(ledger) = 1

-----------------------------------------------------------------------------
(* Claims about the channel (SpecChan) *)

InHand == IF prod.pc = "send" THEN <<prod.p>> ELSE <<>>

\* C16: the values the consumer has handled, followed by those waiting in the
\* channel and the one the producer is sending, are the values generated, in
\* the order of generation, each once; the channel never holds more than 32;
\* the monitor has been given the values in that same order; and while the
\* channel is full the producer keeps the value it is sending and generates
\* no other.
C16_ChannelKeepsOrder ==
    /\ [](/\ Len(queue) <= 32
          /\ prod.pc # "done" =>
                consumed \o queue \o InHand = [i \in 1..produced |-> i]
          /\ consumed = [i \in 1..Len(consumed) |-> i]
          /\ events = [i \in 1..Len(consumed) |-> PriceUpdate(PriceOf(consumed[i]))])
    /\ [][(running /\ prod.pc = "send" /\ Len(queue) = 32 /\ Len(queue') = 32)
            => (prod' = prod /\ produced' = produced /\ queue' = queue)]_vars

\* C16 witness: the channel is full, the producer is waiting with its next
\* value, and the consumer has already handled values.
C16_Witness ==
    /\ Len(queue) = 32
    /\ prod.pc = "send"
    /\ Len(consumed) >= 2
    /\ running

-----------------------------------------------------------------------------
(* Claims about the generator (SpecFeed) *)

\* C17: after every call of next_tick the stored variance is at least 0.001,
\* whatever the draws were and whatever the generator held before, so that
\* the square root of the price update is taken of a positive number.
C17_VarianceFloor ==
    /\ draws # <<>> => feed.current_vol >= 10
    /\ feed.current_vol > 0

\* C17 witness: the draws took the variance below 0.001 and the generator
\* stored 0.001 instead.
C17_Witness ==
    /\ draws # <<>>
    /\ draws[Len(draws)].raw < 10
    /\ feed.current_vol = 10

-----------------------------------------------------------------------------
(* Claims about the execution-backend client (SpecQpu) *)

IsOpen(i) == qlog[i].op = "open_session"
IsRun(i) == qlog[i].op = "run_job"

\* the last open_session call before call i, 0 when there is none
LastOpenBefore(i) ==
    IF \E j \in 1..(i - 1) : IsOpen(j)
        THEN CHOOSE j \in 1..(i - 1) :
                IsOpen(j) /\ \A k \in (j + 1)..(i - 1) : ~IsOpen(k)
        ELSE 0

\* C18: a run_job posts a job only under a session that an earlier
\* open_session obtained; when no open_session has succeeded it posts nothing
\* and returns an error; and when the open_session call before it failed, it
\* returns an error.
C18_RunJobOnlyAfterOpen ==
    \A i \in DOMAIN qlog : IsRun(i) =>
        /\ qlog[i].submitted =>
            \E j \in 1..(i - 1) :
                IsOpen(j) /\ qlog[j].ok /\ qlog[j].session = qlog[i].session
        /\ (\A j \in 1..(i - 1) : IsOpen(j) => ~qlog[j].ok) =>
            (~qlog[i].submitted /\ ~qlog[i].ok)
        /\ (LastOpenBefore(i) # 0 /\ ~qlog[LastOpenBefore(i)].ok) => ~qlog[i].ok

-----------------------------------------------------------------------------
(* Claims about the two arms of check (SpecMon) *)

WasSafe(i) == StateBefore(i) = [tag |-> "Safe"]
WasPending(i) == StateBefore(i).tag = "PendingHedge"

\* C19: a check made in state Safe returns true; it leaves the monitor in
\* Pending(0) when the event is a price update below 100, and in Safe for a
\* price update of 100 or more, for HedgeExecuted and for QuantumJobFinished.
C19_SafeArm ==
    \A i \in 1..Len(events) : WasSafe(i) =>
        /\ rets[i]
        /\ IF events[i].kind = "PriceUpdate" /\ events[i].price < 100
               THEN states[i] = [tag |-> "PendingHedge", ticks |-> 0]
               ELSE states[i] = [tag |-> "Safe"]

\* C19 witness: in state Safe the monitor was given a job completion, a
\* hedge and the price 100 and stayed Safe, then the price 99 took it to
\* Pending(0).
C19_Witness ==
    /\ Len(events) = 4
    /\ events[1].kind = "QuantumJobFinished"
    /\ events[2].kind = "HedgeExecuted"
    /\ events[3] = [kind |-> "PriceUpdate", price |-> 100]
    /\ states[3] = [tag |-> "Safe"]
    /\ events[4] = [kind |-> "PriceUpdate", price |-> 99]
    /\ states[4] = [tag |-> "PendingHedge", ticks |-> 0]

\* C20: a HedgeExecuted given in state Pending(n) takes the monitor to Safe
\* and check returns true, for every n, also beyond the tolerance; a price
\* update below 100 that follows it leaves the monitor in Pending(0).
C20_HedgeClears ==
    \A i \in 1..Len(events) : (WasPending(i) /\ IsHedge(i)) =>
        /\ states[i] = [tag |-> "Safe"]
        /\ rets[i]
        /\ (i < Len(events) /\ SubThresholdAt(i + 1)) =>
            (states[i + 1] = [tag |-> "PendingHedge", ticks |-> 0] /\ rets[i + 1])

\* C20 witness: the hedge came when the tick count was beyond the tolerance,
\* and the next price was below 100.
C20_Witness ==
    \E i \in 2..Len(events) :
        /\ WasPending(i)
        /\ StateBefore(i).ticks > tolerance
        /\ ~rets[i - 1]
        /\ IsHedge(i)
        /\ i < Len(events)
        /\ SubThresholdAt(i + 1)

-----------------------------------------------------------------------------
(* Claims about the tick count of the monitor (SpecMon) *)

\* C21: in state Pending(n) every event that is not HedgeExecuted, a price of
\* 100 or more and QuantumJobFinished included, leaves the monitor in
\* Pending(n + 1); after a check that reported a violation the state is
\* still Pending with the count kept, and the next event that is not
\* HedgeExecuted raises the count by one again and reports a violation again.
C21_TicksAccumulate ==
    \A i \in 1..Len(events) : (WasPending(i) /\ ~IsHedge(i)) =>
        /\ states[i] = [tag |-> "PendingHedge", ticks |-> StateBefore(i).ticks + 1]
        /\ (~rets[i] /\ i < Len(events) /\ ~IsHedge(i + 1)) =>
            /\ ~rets[i + 1]
            /\ states[i + 1] = [tag |-> "PendingHedge", ticks |-> StateBefore(i).ticks + 2]

\* C21 witness: a violation was reported for a price of 101, and the
\* QuantumJobFinished after it was counted and reported as well.
C21_Witness ==
    \E i \in 2..Len(events) :
        /\ WasPending(i)
        /\ events[i] = [kind |-> "PriceUpdate", price |-> 101]
        /\ ~rets[i]
        /\ i < Len(events)
        /\ events[i + 1].kind = "QuantumJobFinished"
        /\ ~rets[i + 1]
        /\ states[i + 1].ticks = StateBefore(i).ticks + 2

-----------------------------------------------------------------------------
(* Claims about the locks of the guard (SpecConcFair) *)

Holds(p, l) == locks[l] = p
InCall(p) == pc[p] # "idle"

\* a caller holds the state mutex only with the counter mutex, and the
\* last-failure mutex only with both
LocksInOrder ==
    \A p \in Procs :
        /\ Holds(p, "state") => Holds(p, "error_count")
        /\ Holds(p, "last_failure") => (Holds(p, "error_count") /\ Holds(p, "state"))

\* check_health holds no mutex from its reads up to the first lock of reset
ResetStartsUnlocked ==
    \A p \in Procs :
        pc[p] \in {"ch_read_last", "ch_elapsed", "rs_lock_count"} =>
            \A l \in {"error_count", "state", "last_failure"} : ~Holds(p, l)

-----------------------------------------------------------------------------
(* Claims about the end of producer and consumer (SpecChan) *)

\* once the receiver is gone, the send the producer is in or comes to next
\* returns an error and the task ends, nothing being enqueued
SendFailsAfterDrop ==
    [][(~running /\ prod.pc = "send" /\ prod' # prod)
        => (prod'.pc = "done" /\ queue' = queue)]_vars

\* C23: when the receiving end of the channel is dropped the next send of
\* the producer fails and the producer task ends; and the consumer loop ends
\* only with recv returning None, that is with the producer ended and the
\* channel empty.
C23_LoopEndsOnlyOnClosure ==
    /\ SendFailsAfterDrop
    /\ [][(running /\ ~running') => (prod.pc = "done" /\ queue = <<>>)]_vars

-----------------------------------------------------------------------------
(* Claims about the consumer loop after a price below the threshold (SpecChan) *)

\* the first value below 100 that the monitor was given, 0 when there is none
FirstDip ==
    IF \E i \in 1..Len(events) : SubThresholdAt(i)
        THEN CHOOSE i \in 1..Len(events) :
                SubThresholdAt(i) /\ \A j \in 1..(i - 1) : ~SubThresholdAt(j)
        ELSE 0

\* C24: the loop gives the monitor price updates only, and the step counter
\* moves, by one, only on a tick that passed the health check and the
\* monitor; after the first price below 100 the next ten ticks at most pass
\* the monitor and every later one is rejected, and once those ten have
\* passed the step counter stays as it is and no cycle runs: nothing is
\* added to the ledger or to the metrics.
C24_LoopStallsAfterDip ==
    /\ [](/\ \A i \in 1..Len(events) : events[i].kind = "PriceUpdate"
          /\ FirstDip # 0 =>
                \A j \in (FirstDip + 1)..Len(events) : rets[j] = (j - FirstDip <= 10))
    /\ [][step' # step => (step' = step + 1 /\ tick'.health /\ tick'.mon = "ok")]_vars
    /\ [][(monitor.tag = "PendingHedge" /\ monitor.ticks >= 10)
            => (/\ step' = step
                /\ ledger' = ledger
                /\ metrics' = metrics
                /\ tick' # tick => (tick'.mon = "violation" /\ tick'.cycle = "none"))]_vars

\* C24 witness: the first value was below 100, ten more ticks passed, and the
\* two ticks after them were rejected with the step counter left at 12.
C24_Witness ==
    /\ FirstDip = 1
    /\ Len(events) = 13
    /\ rets[11]
    /\ ~rets[12]
    /\ ~rets[13]
    /\ step = 12
    /\ tick.mon = "violation"

-----------------------------------------------------------------------------
(* Claims about the feasibility of the cycles of the manager (SpecCycle) *)

\* C25: a run_optimization_cycle works with a depth of 1, 2 or 4 and with a
\* coherence limit of 50, when there is no knowledge graph or no target node
\* in it, or of 100; depth x 10 x 0.05 is then at most half the limit, the
\* verification accepts and the cycle is never aborted as infeasible.
C25_CycleAlwaysFeasible ==
    fcall.op = "run_optimization_cycle" =>
        /\ fcall.params.depth \in {1, 2, 4}
        /\ fcall.params.t1_limit =
               IF kg.some /\ "hw-ibm-heron" \in DOMAIN kg.nodes THEN 100 ELSE 50
        /\ fcall.params.depth * 10 * 5 <= fcall.params.t1_limit * 50
        /\ fcall.calls[1] = [op |-> "verify", ret |-> TRUE]
        /\ fcall.outcome # "infeasible"
        /\ Len(fcall.calls) >= 2

\* C25 witness: a cycle ran with the deepest strategy, depth 4 against a
\* limit of 100, and went on to the synthesis.
C25_Witness ==
    /\ fcall.op = "run_optimization_cycle"
    /\ fcall.params.depth = 4
    /\ fcall.params.t1_limit = 100
    /\ fcall.calls[2].op = "generate_qaoa_circuit"

-----------------------------------------------------------------------------
(* Claims about the error counter of the guard (SpecGuard) *)

\* C26: the error counter is the number of report_failure calls since the
\* guard was last reset, whatever check_health and record_metric calls and
\* however much time lie between them; it goes down only to zero and only in
\* the check_health that takes the guard from Open to Healthy; the guard is
\* Open exactly from the sixth of these reports on; and a report_failure made
\* while Open stores the present instant as the start of the cooldown.
C26_CounterIsCumulative ==
    /\ [](/\ sre.error_count = ghost.fails
          /\ (sre.state = "Open") = (ghost.fails >= 6))
    /\ [][sre'.error_count < sre.error_count
            => (/\ sre.state = "Open"
                /\ sre'.state = "Healthy"
                /\ sre'.error_count = 0
                /\ call'.op = "check_health"
                /\ call'.ret)]_vars
    /\ [][(sre.state = "Open" /\ sre'.error_count = sre.error_count + 1)
            => (/\ sre'.state = "Open"
                /\ sre'.last_failure = [some |-> TRUE, at |-> now])]_vars

\* C26 witness: a seventh failure was reported while the guard was Open, later
\* than the sixth, and the check_health 30 seconds after it was refused although
\* more than 30 seconds had passed since the guard opened.
C26_Witness ==
    /\ sre.state = "Open"
    /\ sre.error_count = 7
    /\ sre.last_failure = [some |-> TRUE, at |-> 5]
    /\ call.op = "check_health"
    /\ ~call.ret
    /\ call.at = 35

====
